---- MODULE Spec2Model ----
(***************************************************************************)
(* flask-resteasy: the Api registry (src/flask_resteasy.py) and the parts  *)
(* of the host framework it drives (Flask.add_url_rule,                    *)
(* Flask.register_blueprint, Blueprint.record/add_url_rule/register and    *)
(* BlueprintSetupState), as a state machine.                               *)
(*                                                                         *)
(* Python objects are records.  Every method is an operator that takes the *)
(* world w (all objects plus the pending exception w.err) and returns the  *)
(* world after the call; a raised exception stops the remaining statements *)
(* of the call and of its callers, and keeps the effects made before it.   *)
(***************************************************************************)
EXTENDS Integers, Sequences, FiniteSets, TLC

VARIABLES
    apis,      \* the Api objects: app, blueprint, blueprint_setup, prefix, resources, endpoints
    apps,      \* the Flask applications: url_map, view_functions, blueprints
    bps,       \* the Blueprints: url_prefix, _got_registered_once, deferred_functions
    states,    \* the BlueprintSetupState objects, one per register_blueprint call
    res,       \* resource.endpoint of every resource class (None: no such attribute)
    nextView,  \* identity of the next function object that as_view creates
    nOps,      \* number of calls made so far
    last,      \* the last call, its arguments and the exception it raised
    ghost,     \* history: what the calls so far did
    aux        \* inputs and results of the pure-function and equivalence runs

vars == <<apis, apps, bps, states, res, nextView, nOps, last, ghost, aux>>

----------------------------------------------------------------------------
(* Values *)

None == "<None>"

Apis == {"api1", "api2"}
Apps == {"app", "app2"}
Bps == {"test"}
Resources == {"Foo", "Bar"}
Prefixes == {"", "/api"}
BlueprintPrefixes == {None, "/bp"}
MountPrefixes == {None, "/reg"}
UrlLists == {<<"/foo">>, <<"/hi", "/foo">>}
(* add_resource(resource, ..., endpoint=e): the default endpoint of Foo,     *)
(* the default endpoint of Bar, and Bar under the endpoint Foo defaults to.  *)
Registrations == {<<"Foo", None>>, <<"Bar", None>>, <<"Bar", "foo">>}

(* add_resource(..., **kwargs): the keyword options besides endpoint and      *)
(* decorators, a dict from option name to value                              *)
NoOptions == <<>>
ExtraOptions == {NoOptions, "defaults" :> [foo |-> "bar"]}

MaxOps == 3

(* resource.__name__.lower() *)
Lower(name) == CASE name = "Foo" -> "foo"
                 [] name = "Bar" -> "bar"

(* Python truth value of an optional string *)
Truthy(s) == s # None /\ s # ""

(* dict.pop(key, ...): the dict without the key *)
Without(kwargs, key) == [k \in DOMAIN kwargs \ {key} |-> kwargs[k]]

(* dict.get(key): None for a missing key *)
Get(kwargs, key) == IF key \in DOMAIN kwargs THEN kwargs[key] ELSE None

(* the kwargs of add_resource(resource, *urls, endpoint=e, **options) *)
Kwargs(endpointOpt, options) ==
    IF endpointOpt # None THEN ("endpoint" :> endpointOpt) @@ options ELSE options

(* None as the empty string *)
Str(s) == IF s = None THEN "" ELSE s

(* A URL rule handed to add_url_rule: a finished string, or the callable    *)
(* partial(api._make_url, url) that still expects the blueprint prefix.     *)
StrRule(s) == [callable |-> FALSE, api |-> None, url |-> s]
PartialRule(a, url) == [callable |-> TRUE, api |-> a, url |-> url]

NoView == [id |-> 0, view_class |-> None, name |-> None]

(* The exceptions *)
OK == "ok"
EndpointConflict == "ValueError: Endpoint is already set"
AlreadyMounted == "ValueError: Blueprint is already registered with an app."
RepeatedMount == "ValueError: blueprints can only be registered once."
OverwritingEndpoint == "AssertionError: View function mapping is overwriting an existing endpoint function"
MissingViewClass == "KeyError: view_class"
RuleNotAString == "AttributeError: rule is not a string"

Raise(w, e) == [w EXCEPT !.err = e]

----------------------------------------------------------------------------
(* Api._make_url *)

RECURSIVE Join(_)
Join(parts) == IF parts = <<>> THEN "" ELSE Head(parts) \o Join(Tail(parts))

MakeUrlSwapped(prefix, url_part, blueprint_prefix) ==
    Join(SelectSeq(<<prefix, blueprint_prefix, url_part>>, Truthy))

_make_url(prefix, url_part, blueprint_prefix) ==
    Join(SelectSeq(<<blueprint_prefix, prefix, url_part>>, Truthy))

----------------------------------------------------------------------------
(* The host: flask.Flask and flask.Blueprint *)

(* Flask.add_url_rule: the rule goes into the url map first, then the view  *)
(* function is stored unless the endpoint already has a different one.      *)
Flask_add_url_rule(w, app, rule, endpoint, view, options) ==
    IF rule.callable THEN Raise(w, RuleNotAString)
    ELSE LET ep == IF endpoint = None THEN view.name ELSE endpoint
             w1 == [w EXCEPT !.apps[app].url_map =
                        Append(@, [rule |-> rule.url, endpoint |-> ep,
                                   options |-> options])]
             vf == w.apps[app].view_functions
         IN  IF ep \in DOMAIN vf /\ vf[ep] # view
             THEN Raise(w1, OverwritingEndpoint)
             ELSE [w1 EXCEPT !.apps[app].view_functions = (ep :> view) @@ @]

(* Blueprint.record *)
Blueprint_record(w, bp, deferred) ==
    [w EXCEPT !.bps[bp].deferred_functions = Append(@, deferred)]

(* Blueprint.add_url_rule records lambda s: s.add_url_rule(rule, ...) *)
Blueprint_add_url_rule(w, bp, rule, view, options) ==
    Blueprint_record(w, bp, [kind |-> "add_url_rule", api |-> None,
                             rule |-> rule, view |-> view, options |-> options])

(* BlueprintSetupState.url_defaults of a blueprint without url defaults *)
url_defaults == <<>>

(* the options a setup state's add_url_rule passes on to the application:    *)
(* "options.setdefault('subdomain', blueprint_setup.subdomain)", the         *)
(* subdomain of the blueprints here being None, and                          *)
(* "defaults = dict(url_defaults, **options.pop('defaults'))" when the       *)
(* options have defaults, else "defaults = url_defaults"                     *)
SetupOptions(options) ==
    LET given == IF "defaults" \in DOMAIN options THEN options["defaults"] ELSE <<>>
    IN  ("defaults" :> (given @@ url_defaults))
        @@ Without(options, "defaults")
        @@ ("subdomain" :> None)

(* BlueprintSetupState.add_url_rule as flask defines it *)
_original_add_url_rule(w, s, rule, endpoint, view, options) ==
    LET st == w.states[s]
        ep == IF endpoint = None THEN view.name ELSE endpoint
    IN  IF rule.callable /\ Truthy(st.url_prefix)
        THEN Raise(w, "TypeError: str + partial")
        ELSE Flask_add_url_rule(w, st.app,
                 IF Truthy(st.url_prefix) THEN StrRule(st.url_prefix \o rule.url)
                                          ELSE rule,
                 st.blueprint \o "." \o ep, view, SetupOptions(options))

----------------------------------------------------------------------------
(* Api *)

(* Api._add_url_rule_patch *)
ResolveRuleDeclared(w, s, rule) ==
    LET st == w.states[s]
    IN  IF rule.callable
        THEN _make_url(w.apis[rule.api].prefix, rule.url, w.bps[st.blueprint].url_prefix)
        ELSE IF Truthy(st.url_prefix) THEN st.url_prefix \o rule.url
                                      ELSE rule.url

ResolveRuleBothPrefixes(w, s, rule) ==
    LET st == w.states[s]
        both == Str(st.url_prefix) \o Str(w.bps[st.blueprint].url_prefix)
    IN  IF rule.callable
        THEN _make_url(w.apis[rule.api].prefix, rule.url, both)
        ELSE IF Truthy(both) THEN both \o rule.url
                             ELSE rule.url

(* "if callable(rule): rule = rule(blueprint_setup.url_prefix)              *)
(*  elif blueprint_setup.url_prefix: rule = url_prefix + rule"              *)
ResolveRule(w, s, rule) ==
    LET st == w.states[s]
    IN  IF rule.callable
        THEN _make_url(w.apis[rule.api].prefix, rule.url, st.url_prefix)
        ELSE IF Truthy(st.url_prefix) THEN st.url_prefix \o rule.url
                                      ELSE rule.url

_add_url_rule_patchUnqualified(w, s, rule, endpoint, view, options) ==
    LET st == w.states[s]
        ep == IF endpoint = None THEN view.name ELSE endpoint
    IN  Flask_add_url_rule(w, st.app, StrRule(ResolveRule(w, s, rule)), ep, view,
                           SetupOptions(options))

_add_url_rule_patch(w, s, rule, endpoint, view, options) ==
    LET st == w.states[s]
        ep == IF endpoint = None THEN view.name ELSE endpoint
    IN  Flask_add_url_rule(w, st.app, StrRule(ResolveRule(w, s, rule)),
                           st.blueprint \o "." \o ep, view, SetupOptions(options))

(* setup_state.add_url_rule(...): the patched or the original method *)
SetupState_add_url_rule(w, s, rule, endpoint, view, options) ==
    IF w.states[s].patched
    THEN _add_url_rule_patch(w, s, rule, endpoint, view, options)
    ELSE _original_add_url_rule(w, s, rule, endpoint, view, options)

(* the body of "for url in urls" of Api._register_view, from index i on *)
RECURSIVE RegisterUrls(_, _, _, _, _, _, _)
RegisterUrls(w, a, app, urls, view, kwargs, i) ==
    IF w.err # OK \/ i > Len(urls) THEN w
    ELSE LET self == w.apis[a]
             url == urls[i]
             w1 == IF self.blueprint # None
                   THEN IF self.blueprint_setup # 0
                        THEN SetupState_add_url_rule(w, self.blueprint_setup,
                                 StrRule(_make_url(self.prefix, url, None)), None, view,
                                 kwargs)
                        ELSE IF app \in Bps
                             THEN Blueprint_add_url_rule(w, app, PartialRule(a, url), view,
                                                         kwargs)
                             ELSE Flask_add_url_rule(w, app, PartialRule(a, url), None, view,
                                                     kwargs)
                   ELSE IF app \in Bps
                        THEN Blueprint_add_url_rule(w, app,
                                 StrRule(_make_url(self.prefix, url, None)), view, kwargs)
                        ELSE Flask_add_url_rule(w, app,
                                 StrRule(_make_url(self.prefix, url, None)), None, view,
                                 kwargs)
         IN  RegisterUrls(w1, a, app, urls, view, kwargs, i + 1)

(* Api._register_view *)
ResolveEndpointDefaultOnly(resource, endpointOpt) == Lower(resource)

(* "kwargs.pop('endpoint', None) or resource.__name__.lower()" *)
ResolveEndpoint(resource, endpointOpt) ==
    IF Truthy(endpointOpt) THEN endpointOpt ELSE Lower(resource)

CheckEndpointNever(w, app, resource, endpoint) == w

CheckEndpointOncePerResource(w, app, resource, endpoint) ==
    LET vf == IF app \in Apps THEN w.apps[app].view_functions ELSE <<>>
    IN  IF app \in Apps /\ \E e \in DOMAIN vf :
                               \/ e = endpoint /\ vf[e].view_class # resource
                               \/ e # endpoint /\ vf[e].view_class = resource
        THEN Raise(w, EndpointConflict)
        ELSE w

(* the endpoint check: only against a Flask application's view_functions *)
CheckEndpoint(w, app, resource, endpoint) ==
    LET vf == IF app \in Apps THEN w.apps[app].view_functions ELSE <<>>
    IN  IF app \in Apps /\ endpoint \in DOMAIN vf
        THEN IF vf[endpoint].view_class = None THEN Raise(w, MissingViewClass)
             ELSE IF vf[endpoint].view_class # resource THEN Raise(w, EndpointConflict)
             ELSE w
        ELSE w

AssignEndpointAlways(w, resource, endpoint) ==
    [w EXCEPT !.res[resource] = endpoint]

(* "if not hasattr(resource, 'endpoint'): resource.endpoint = endpoint" *)
AssignEndpoint(w, resource, endpoint) ==
    [w EXCEPT !.res[resource] = IF @ = None THEN endpoint ELSE @]

(* resource.as_view(endpoint) wrapped by Api.output: a new function object *)
NewView(w, resource, endpoint) ==
    [id |-> w.nextView, view_class |-> resource, name |-> endpoint]

RemainingKwargsNone(kwargs) == NoOptions

(* kwargs after "kwargs.pop('endpoint', None)" and "kwargs.pop('decorators', *)
(* ())": what "**kwargs" hands to add_url_rule                               *)
RemainingKwargs(kwargs) == Without(Without(kwargs, "endpoint"), "decorators")

AddEndpointOnly(endpoints, endpoint) == {endpoint}

(* "self.endpoints.add(endpoint)" *)
AddEndpoint(endpoints, endpoint) == endpoints \cup {endpoint}

(* Decorators as far as the name of the function they return goes: one      *)
(* written with functools.wraps, as those of tests/decorators.py, and one    *)
(* that returns its inner function wrapper as it is                          *)
WrapsDecorator == [name |-> "wrapper", wraps |-> TRUE]
PlainDecorator == [name |-> "wrapper", wraps |-> FALSE]

(* "kwargs.pop('decorators', ())" *)
GetDecorators(kwargs) ==
    IF "decorators" \in DOMAIN kwargs THEN kwargs["decorators"] ELSE <<>>

(* decorator(resource_func): functools.wraps gives the wrapper the __name__  *)
(* and the __dict__, view_class in it, of the function it wraps; without it  *)
(* the wrapper has its own name and no view_class                            *)
Decorate(view, decorator) ==
    IF decorator.wraps THEN view
    ELSE [view EXCEPT !.name = decorator.name, !.view_class = None]

(* "for decorator in chain(kwargs.pop('decorators', ()), self.decorators):  *)
(*      resource_func = decorator(resource_func)", from index i on           *)
RECURSIVE DecoratedView(_, _, _)
DecoratedView(view, decorators, i) ==
    IF i > Len(decorators) THEN view
    ELSE DecoratedView(Decorate(view, decorators[i]), decorators, i + 1)

(* kwargs is the dict that the call "(app, resource, *urls, **kwargs)" made  *)
(* for this call: the pops change it, not the caller's dict                  *)
_register_view(w, a, app, resource, urls, kwargs) ==
    LET endpoint == ResolveEndpoint(resource, Get(kwargs, "endpoint"))
        w1 == [w EXCEPT !.apis[a].endpoints = AddEndpoint(@, endpoint)]
        w2 == CheckEndpoint(w1, app, resource, endpoint)
        w3 == AssignEndpoint(w2, resource, endpoint)
        w4 == [w3 EXCEPT !.nextView = @ + 1]
        resource_func == DecoratedView(NewView(w3, resource, endpoint),
                                       GetDecorators(kwargs) \o w.apis[a].decorators, 1)
    IN  IF w2.err # OK THEN w2
        ELSE RegisterUrls(w4, a, app, urls, resource_func, RemainingKwargs(kwargs), 1)

(* Api._init_app: replay self.resources from index i on *)
RECURSIVE ReplayResources(_, _, _, _)
ReplayResources(w, a, app, i) ==
    IF w.err # OK \/ i > Len(w.apis[a].resources) THEN w
    ELSE LET entry == w.apis[a].resources[i]
         IN  ReplayResources(
                 _register_view(w, a, app, entry.resource, entry.urls, entry.kwargs),
                 a, app, i + 1)

_init_app(w, a, app) == ReplayResources(w, a, app, 1)

(* setup_state.add_url_rule.__name__ *)
MethodName(st) == IF st.patched THEN "_add_url_rule_patch" ELSE "add_url_rule"

InstallPatchAlways(st) ==
    [st EXCEPT !.original = MethodName(st), !.patched = TRUE]

(* "if setup_state.add_url_rule.__name__ != '_add_url_rule_patch':" keeps    *)
(* the current method as _original_add_url_rule (field original) and puts    *)
(* the patch in its place                                                    *)
InstallPatch(st) ==
    IF MethodName(st) # "_add_url_rule_patch"
    THEN [st EXCEPT !.original = MethodName(st), !.patched = TRUE]
    ELSE st

(* Api._deferred_blueprint_init *)
_deferred_blueprint_init(w, a, s) ==
    LET w1 == [w EXCEPT !.apis[a].blueprint_setup = s,
                        !.states[s] = InstallPatch(@)]
    IN  IF ~w.states[s].first_registration
        THEN Raise(w1, RepeatedMount)
        ELSE _init_app(w1, a, w.states[s].app)

(* Api.init_app *)
InitAppNoCheck(w, a, host) ==
    IF host \in Bps
    THEN [Blueprint_record(w, host, [kind |-> "init", api |-> a,
                                     rule |-> StrRule(None), view |-> NoView,
                                     options |-> NoOptions])
            EXCEPT !.apis[a].blueprint = host]
    ELSE _init_app(w, a, host)

init_app(w, a, host) ==
    IF host \in Bps
    THEN IF w.bps[host].got_registered_once
         THEN Raise(w, AlreadyMounted)
         ELSE [Blueprint_record(w, host, [kind |-> "init", api |-> a,
                                          rule |-> StrRule(None), view |-> NoView,
                                          options |-> NoOptions])
                 EXCEPT !.apis[a].blueprint = host]
    ELSE _init_app(w, a, host)

(* Api.add_resource *)
add_resource(w, a, resource, urls, kwargs) ==
    IF w.apis[a].app # None
    THEN _register_view(w, a, w.apis[a].app, resource, urls, kwargs)
    ELSE [w EXCEPT !.apis[a].resources =
              Append(@, [resource |-> resource, urls |-> urls, kwargs |-> kwargs])]

(* Api.__init__ *)
NotMade == [made |-> FALSE, app |-> None, blueprint |-> None, blueprint_setup |-> 0,
            prefix |-> "", resources |-> <<>>, endpoints |-> {}, decorators |-> <<>>]

Api_init(w, a, host, prefix) ==
    LET w1 == [w EXCEPT !.apis[a] = [NotMade EXCEPT !.made = TRUE, !.prefix = prefix]]
        w2 == IF host # None
              THEN init_app([w1 EXCEPT !.apis[a].app = host], a, host)
              ELSE w1
    IN  IF w2.err # OK THEN [w2 EXCEPT !.apis[a] = NotMade] ELSE w2

----------------------------------------------------------------------------
(* Mounting: Flask.register_blueprint and Blueprint.register *)

RECURSIVE RunDeferred(_, _, _, _)
RunDeferred(w, bp, s, i) ==
    IF w.err # OK \/ i > Len(w.bps[bp].deferred_functions) THEN w
    ELSE LET d == w.bps[bp].deferred_functions[i]
             w1 == IF d.kind = "init"
                   THEN _deferred_blueprint_init(w, d.api, s)
                   ELSE SetupState_add_url_rule(w, s, d.rule, None, d.view, d.options)
         IN  RunDeferred(w1, bp, s, i + 1)

register_blueprint(w, app, bp, url_prefix) ==
    LET first == bp \notin w.apps[app].blueprints
        s == Len(w.states) + 1
        st == [app |-> app, blueprint |-> bp,
               url_prefix |-> IF url_prefix # None THEN url_prefix
                              ELSE w.bps[bp].url_prefix,
               first_registration |-> first, patched |-> FALSE,
               original |-> None]
        w1 == [w EXCEPT !.apps[app].blueprints = @ \cup {bp},
                        !.bps[bp].got_registered_once = TRUE,
                        !.states = Append(@, st)]
    IN  RunDeferred(w1, bp, s, 1)

----------------------------------------------------------------------------
(* The state machine *)

World == [apis |-> apis, apps |-> apps, bps |-> bps, states |-> states,
          res |-> res, nextView |-> nextView, err |-> OK]

NoOp == [op |-> "none", api |-> None, host |-> None, resource |-> None,
         urls |-> <<>>, endpoint |-> None, options |-> NoOptions, prefix |-> None,
         err |-> OK]

NoAux == [kind |-> "none"]

(* History of the calls: bound[a], the applications registry a was bound to *)
(* by a successful Api(app) or init_app(app); added[a], the resource, urls   *)
(* and endpoint of the add_resource calls on a that returned; asked[a], the  *)
(* resource and endpoint of all add_resource calls on a; mountErr, the       *)
(* outcome of every register_blueprint call, in the order of states.         *)
NoGhost == [bound |-> [a \in Apis |-> {}], added |-> [a \in Apis |-> {}],
            asked |-> [a \in Apis |-> {}], mountErr |-> <<>>]

Record(g, op, err) ==
    [g EXCEPT
       !.bound = IF op.op \in {"Api", "init_app"} /\ op.host \in Apps /\ err = OK
                 THEN [@ EXCEPT ![op.api] = @ \cup {op.host}] ELSE @,
       !.added = IF op.op = "add_resource" /\ err = OK
                 THEN [@ EXCEPT ![op.api] =
                          @ \cup {[resource |-> op.resource, urls |-> op.urls,
                                   endpoint |-> ResolveEndpoint(op.resource, op.endpoint)]}]
                 ELSE @,
       !.asked = IF op.op = "add_resource"
                 THEN [@ EXCEPT ![op.api] =
                          @ \cup {[resource |-> op.resource,
                                   endpoint |-> ResolveEndpoint(op.resource, op.endpoint)]}]
                 ELSE @,
       !.mountErr = IF op.op = "register_blueprint" THEN Append(@, err) ELSE @]

Commit(w, op) ==
    /\ apis' = w.apis
    /\ apps' = w.apps
    /\ bps' = w.bps
    /\ states' = w.states
    /\ res' = w.res
    /\ nextView' = w.nextView
    /\ nOps' = nOps + 1
    /\ last' = [op EXCEPT !.err = w.err]
    /\ ghost' = Record(ghost, op, w.err)

(* The hosts and resources exist, no registry does *)
EmptyWorlds ==
    {[apis |-> [a \in Apis |-> NotMade],
      apps |-> [p \in Apps |-> [url_map |-> <<>>, view_functions |-> <<>>,
                                blueprints |-> {}]],
      bps |-> b,
      states |-> <<>>,
      res |-> [r \in Resources |-> None],
      nextView |-> 1,
      err |-> OK] :
        b \in [Bps -> {[url_prefix |-> u, got_registered_once |-> FALSE,
                        deferred_functions |-> <<>>] : u \in BlueprintPrefixes}]}

Start(w) ==
    /\ apis = w.apis
    /\ apps = w.apps
    /\ bps = w.bps
    /\ states = w.states
    /\ res = w.res
    /\ nextView = w.nextView
    /\ nOps = 0

(* The first registry has been constructed: api1 = Api(host, prefix=prefix). *)
(* The calls below set the program up; they are made before the first        *)
(* request is served (aux = NoAux: no request has been observed).            *)
Init ==
    /\ \E w \in EmptyWorlds, host \in {None} \cup Apps \cup Bps, prefix \in Prefixes :
          /\ Start(Api_init(w, "api1", host, prefix))
          /\ last = [NoOp EXCEPT !.op = "Api", !.api = "api1", !.host = host,
                                 !.prefix = prefix]
          /\ ghost = Record(NoGhost, last, OK)
    /\ aux = NoAux

Construct(a, host, prefix) ==
    /\ nOps < MaxOps
    /\ aux = NoAux
    /\ ~apis[a].made
    /\ Commit(Api_init(World, a, host, prefix),
              [NoOp EXCEPT !.op = "Api", !.api = a, !.host = host, !.prefix = prefix])
    /\ UNCHANGED aux

InitApp(a, host) ==
    /\ nOps < MaxOps
    /\ aux = NoAux
    /\ apis[a].made
    /\ Commit(init_app(World, a, host),
              [NoOp EXCEPT !.op = "init_app", !.api = a, !.host = host])
    /\ UNCHANGED aux

AddResource(a, resource, urls, endpointOpt, options) ==
    /\ nOps < MaxOps
    /\ aux = NoAux
    /\ apis[a].made
    /\ Commit(add_resource(World, a, resource, urls, Kwargs(endpointOpt, options)),
              [NoOp EXCEPT !.op = "add_resource", !.api = a, !.resource = resource,
                           !.urls = urls, !.endpoint = endpointOpt,
                           !.options = options])
    /\ UNCHANGED aux

Mount(app, bp, url_prefix) ==
    /\ nOps < MaxOps
    /\ aux = NoAux
    /\ Commit(register_blueprint(World, app, bp, url_prefix),
              [NoOp EXCEPT !.op = "register_blueprint", !.api = bp, !.host = app,
                           !.prefix = url_prefix])
    /\ UNCHANGED aux

Next ==
    \/ \E a \in Apis, host \in {None} \cup Apps \cup Bps, prefix \in Prefixes :
           Construct(a, host, prefix)
    \/ \E a \in Apis, host \in Apps \cup Bps : InitApp(a, host)
    \/ \E a \in Apis, reg \in Registrations, urls \in UrlLists :
           AddResource(a, reg[1], urls, reg[2], NoOptions)
    \/ \E app \in Apps, bp \in Bps, url_prefix \in MountPrefixes :
           Mount(app, bp, url_prefix)

Spec == Init /\ [][Next]_vars

----------------------------------------------------------------------------
(* _make_url as a function of its three fragments: the immediate call and   *)
(* the deferred form partial(_make_url, d) resolved by _add_url_rule_patch.  *)

MountFragments == {None, "", "/bp", "/reg"}
PrefixFragments == {None, "", "/api", "/2015"}
PathFragments == {"", "/foo", "/hi", "foo"}

InitMakeUrl ==
    /\ \E w \in EmptyWorlds : Start(w)
    /\ last = NoOp
    /\ ghost = NoGhost
    /\ aux \in [kind : {"make_url"}, m : MountFragments, r : PrefixFragments,
                d : PathFragments, form : {"none"}, url : {None}]

Immediate ==
    /\ aux.form = "none"
    /\ aux' = [aux EXCEPT !.form = "immediate", !.url = _make_url(aux.r, aux.d, aux.m)]
    /\ UNCHANGED <<apis, apps, bps, states, res, nextView, nOps, last, ghost>>

Deferred ==
    /\ aux.form = "none"
    /\ LET w == [World EXCEPT
                   !.apis["api1"] = [NotMade EXCEPT !.made = TRUE, !.prefix = aux.r],
                   !.states = <<[app |-> "app", blueprint |-> "test",
                                 url_prefix |-> aux.m, first_registration |-> TRUE,
                                 patched |-> TRUE, original |-> "add_url_rule"]>>]
       IN  aux' = [aux EXCEPT !.form = "deferred",
                              !.url = ResolveRule(w, 1, PartialRule("api1", aux.d))]
    /\ UNCHANGED <<apis, apps, bps, states, res, nextView, nOps, last, ghost>>

NextMakeUrl == Immediate \/ Deferred

SpecMakeUrl == InitMakeUrl /\ [][NextMakeUrl]_vars

----------------------------------------------------------------------------
(* The same add_resource calls made on api1, bound to the unmounted         *)
(* blueprint by Api(blueprint, prefix=r) or by Api(prefix=r) and             *)
(* init_app(blueprint), and on api2 = Api(app2, prefix=mount prefix + r);    *)
(* then the blueprint is mounted on app with url_prefix aux.m.               *)

InitEquiv ==
    \E w \in EmptyWorlds, r \in Prefixes, m \in MountPrefixes,
       bind \in {"Api", "init_app"} :
        LET eff == IF m # None THEN m ELSE w.bps["test"].url_prefix
            w1 == IF bind = "Api" THEN Api_init(w, "api1", "test", r)
                  ELSE init_app(Api_init(w, "api1", None, r), "api1", "test")
            w2 == Api_init(w1, "api2", "app2", Str(eff) \o r)
        IN  /\ Start(w2)
            /\ last = NoOp
            /\ ghost = NoGhost
            /\ aux = [kind |-> "equiv", m |-> m, bind |-> bind,
                     errDirect |-> OK, errGroup |-> OK]

AddBoth(resource, urls, endpointOpt) ==
    /\ nOps < MaxOps
    /\ states = <<>>
    /\ LET kwargs == Kwargs(endpointOpt, NoOptions)
           w1 == add_resource(World, "api1", resource, urls, kwargs)
           w2 == add_resource([w1 EXCEPT !.err = OK], "api2", resource, urls, kwargs)
           err == IF w1.err # OK THEN w1.err ELSE w2.err
           keep(old, new) == IF old # OK THEN old ELSE new
       IN  /\ apis' = w2.apis
           /\ apps' = w2.apps
           /\ bps' = w2.bps
           /\ states' = w2.states
           /\ res' = w2.res
           /\ nextView' = w2.nextView
           /\ last' = [NoOp EXCEPT !.op = "add_resource", !.resource = resource,
                                   !.urls = urls, !.endpoint = endpointOpt, !.err = err]
           /\ aux' = [aux EXCEPT !.errGroup = keep(@, w1.err),
                                 !.errDirect = keep(@, w2.err)]
    /\ nOps' = nOps + 1
    /\ UNCHANGED ghost

MountGroup ==
    /\ nOps < MaxOps
    /\ states = <<>>
    /\ LET w == register_blueprint(World, "app", "test", aux.m)
       IN  /\ apis' = w.apis
           /\ apps' = w.apps
           /\ bps' = w.bps
           /\ states' = w.states
           /\ res' = w.res
           /\ nextView' = w.nextView
           /\ last' = [NoOp EXCEPT !.op = "register_blueprint", !.api = "test",
                                   !.host = "app", !.prefix = aux.m, !.err = w.err]
           /\ aux' = [aux EXCEPT !.errGroup = IF @ # OK THEN @ ELSE w.err]
    /\ nOps' = nOps + 1
    /\ UNCHANGED ghost

NextEquiv ==
    \/ \E reg \in Registrations, urls \in UrlLists : AddBoth(reg[1], urls, reg[2])
    \/ MountGroup

SpecEquiv == InitEquiv /\ [][NextEquiv]_vars

----------------------------------------------------------------------------
(* The function object _register_view builds for a resource, and a request  *)
(* served by it.  A function object is the sequence of its layers, innermost *)
(* first; decorator(f) puts one layer around f.                              *)

MaxDecorators == 2

ApiDecoratorNames == {"A1", "A2"}
RegDecoratorNames == {"a1", "a2"}
ClassDecoratorNames == {"r1", "r2"}
MethodDecoratorNames == {"m1", "m2"}

(* the decorator lists of up to MaxDecorators decorators *)
DecoratorLists(names) == UNION {[1..n -> names] : n \in 0..MaxDecorators}

Layer(kind, name) == [kind |-> kind, name |-> name]

(* "for decorator in decorators: f = decorator(f)", from index i on *)
RECURSIVE ApplyDecorators(_, _, _)
ApplyDecorators(f, decorators, i) ==
    IF i > Len(decorators) THEN f
    ELSE ApplyDecorators(Append(f, Layer("decorator", decorators[i])), decorators, i + 1)

(* the handler method "get" under its own decorators, the lowest first *)
HandlerMethod(methodDecorators) ==
    ApplyDecorators(<<Layer("handler", "get")>>, methodDecorators, 1)

(* flask.views.View.as_view: view() dispatches to the handler method; the   *)
(* class attribute decorators is applied to view in list order               *)
as_view(classDecorators, methodDecorators) ==
    ApplyDecorators(Append(HandlerMethod(methodDecorators), Layer("view", "view")),
                    classDecorators, 1)

(* Api.output: wrapper calls the resource, then self.responder on the result *)
output(resource) == Append(resource, Layer("output", "output"))

chainSwapped(first, second) == second \o first

(* itertools.chain *)
chain(first, second) == first \o second

ResourceFuncOutputLast(self_decorators, decorators, classDecorators, methodDecorators) ==
    output(ApplyDecorators(as_view(classDecorators, methodDecorators),
                           chain(decorators, self_decorators), 1))

(* "resource_func = self.output(resource.as_view(endpoint))                 *)
(*  for decorator in chain(kwargs.pop('decorators', ()), self.decorators):   *)
(*      resource_func = decorator(resource_func)"                            *)
ResourceFunc(self_decorators, decorators, classDecorators, methodDecorators) ==
    ApplyDecorators(output(as_view(classDecorators, methodDecorators)),
                    chain(decorators, self_decorators), 1)

(* JSONResponse.__call__: a Response is returned as it is, anything else is  *)
(* made into a Response that keeps the headers of the value                  *)
responder(rv) == [rv EXCEPT !.type = "response"]

(* Calling layer i of f: the layer is entered, calls the layer below and     *)
(* works on what that returns.  entered: the layers in the order they were   *)
(* entered; saw: for every decorator the type of the value the function it   *)
(* wraps returned to it; rv: the value returned, with the trace header every *)
(* decorator appends its name to after calling through.                      *)
RECURSIVE Invoke(_, _)
Invoke(f, i) ==
    LET layer == f[i]
        inner == Invoke(f, i - 1)
    IN  CASE layer.kind = "handler" ->
               [entered |-> <<layer.name>>, saw |-> <<>>,
                rv |-> [type |-> "raw", trace |-> <<>>]]
          [] layer.kind = "view" ->
               [inner EXCEPT !.entered = <<layer.name>> \o @]
          [] layer.kind = "output" ->
               [inner EXCEPT !.entered = <<layer.name>> \o @, !.rv = responder(@)]
          [] layer.kind = "decorator" ->
               [entered |-> <<layer.name>> \o inner.entered,
                saw |-> (layer.name :> inner.rv.type) @@ inner.saw,
                rv |-> [inner.rv EXCEPT !.trace = Append(@, layer.name)]]

MatchRequestLast(app, path) ==
    LET hits == {i \in 1..Len(app.url_map) : app.url_map[i].rule = path}
    IN  IF hits = {} THEN None
        ELSE app.url_map[CHOOSE i \in hits : \A j \in hits : i >= j].endpoint

(* werkzeug routing: the endpoint of the first rule of the url map that is   *)
(* the requested path, None when no rule is                                  *)
MatchRequest(app, path) ==
    LET hits == {i \in 1..Len(app.url_map) : app.url_map[i].rule = path}
    IN  IF hits = {} THEN None
        ELSE app.url_map[CHOOSE i \in hits : \A j \in hits : i <= j].endpoint

NoResult == [entered |-> <<>>, saw |-> <<>>, rv |-> [type |-> "none", trace |-> <<>>]]

(* api = Api(app, decorators=A); class Foo(Resource) with decorators = r and *)
(* a get method decorated with m; nothing is registered yet                  *)
InitDecorators ==
    /\ \E w \in EmptyWorlds : Start(Api_init(w, "api1", "app", ""))
    /\ last = NoOp
    /\ ghost = NoGhost
    /\ \E A \in DecoratorLists(ApiDecoratorNames), a \in DecoratorLists(RegDecoratorNames),
          r \in DecoratorLists(ClassDecoratorNames), m \in DecoratorLists(MethodDecoratorNames) :
          aux = [kind |-> "decorators", api |-> A, add |-> a, class |-> r, method |-> m,
                 view |-> 0, func |-> <<>>, result |-> NoResult]

(* api.add_resource(Foo, '/foo', decorators=a) *)
AddDecorated ==
    /\ aux.view = 0
    /\ LET w == add_resource(World, "api1", "Foo", <<"/foo">>, NoOptions)
       IN  /\ Commit(w, [NoOp EXCEPT !.op = "add_resource", !.api = "api1",
                                     !.resource = "Foo", !.urls = <<"/foo">>])
           /\ aux' = [aux EXCEPT !.view = nextView,
                                  !.func = ResourceFunc(aux.api, aux.add, aux.class, aux.method)]

(* GET path: the application calls the view function of the matched endpoint *)
Request(path) ==
    /\ aux.view # 0
    /\ aux.result = NoResult
    /\ LET endpoint == MatchRequest(apps["app"], path)
       IN  /\ endpoint # None
           /\ apps["app"].view_functions[endpoint].id = aux.view
           /\ aux' = [aux EXCEPT !.result = Invoke(aux.func, Len(aux.func))]
           /\ last' = [NoOp EXCEPT !.op = "request", !.host = "app", !.prefix = path,
                                   !.endpoint = endpoint]
    /\ UNCHANGED <<apis, apps, bps, states, res, nextView, nOps, ghost>>

NextDecorators == AddDecorated \/ Request("/foo")

SpecDecorators == InitDecorators /\ [][NextDecorators]_vars

----------------------------------------------------------------------------
(* Reverse routing: Api.url_for inside a request to an application           *)

EndpointNames == ({Lower(r) : r \in Resources} \cup {reg[2] : reg \in Registrations}) \ {None}

(* '%s.%s' % (blueprint.name, endpoint) *)
Qualified(bp, endpoint) == bp \o "." \o endpoint

(* request.blueprint: the part of the matched endpoint before its last dot  *)
RequestBlueprint(endpoint) ==
    IF \E bp \in Bps, e \in EndpointNames : endpoint = Qualified(bp, e)
    THEN CHOOSE bp \in Bps : \E e \in EndpointNames : endpoint = Qualified(bp, e)
    ELSE None

NoAttributeEndpoint == "AttributeError: type object has no attribute 'endpoint'"
BuildError == "werkzeug.routing.BuildError: could not build url for endpoint"

(* flask.url_for(endpoint) in a request that matched requestEndpoint: a      *)
(* leading dot stands for the blueprint of the request; the URL is that of   *)
(* the first rule of the url map under the endpoint                          *)
flask_url_for(app, requestEndpoint, endpoint, relative) ==
    LET blueprint_name == RequestBlueprint(requestEndpoint)
        target == IF relative /\ blueprint_name # None
                  THEN Qualified(blueprint_name, endpoint)
                  ELSE endpoint
        rules == {i \in 1..Len(app.url_map) : app.url_map[i].endpoint = target}
    IN  IF rules = {} THEN [err |-> BuildError, url |-> None]
        ELSE [err |-> OK,
              url |-> app.url_map[CHOOSE i \in rules : \A j \in rules : i <= j].rule]

(* Api.url_for *)
url_for(w, a, resource, app, requestEndpoint) ==
    IF w.res[resource] = None THEN [err |-> NoAttributeEndpoint, url |-> None]
    ELSE flask_url_for(w.apps[app], requestEndpoint, w.res[resource],
                       w.apis[a].blueprint # None)

(* the final URLs of an application *)
PathsOf(app) == {apps[app].url_map[i].rule : i \in 1..Len(apps[app].url_map)}

(* with app.test_request_context(path): api.url_for(resource), for a path    *)
(* that the application routes                                               *)
UrlFor(a, resource, app) ==
    /\ aux = NoAux
    /\ apis[a].made
    /\ \E path \in PathsOf(app) :
          LET endpoint == MatchRequest(apps[app], path)
              rv == url_for(World, a, resource, app, endpoint)
          IN  aux' = [kind |-> "url_for", api |-> a, resource |-> resource, app |-> app,
                      path |-> path, endpoint |-> endpoint, err |-> rv.err, url |-> rv.url]
    /\ UNCHANGED <<apis, apps, bps, states, res, nextView, nOps, last, ghost>>

NextUrlFor ==
    \/ Next
    \/ \E a \in Apis, resource \in Resources, app \in Apps : UrlFor(a, resource, app)

(* api1 = Api(host, prefix='/api'), the group declared with url_prefix '/bp' *)
InitUrlFor ==
    /\ Init
    /\ apis["api1"].prefix = "/api"
    /\ bps["test"].url_prefix = "/bp"

SpecUrlFor == InitUrlFor /\ [][NextUrlFor]_vars

----------------------------------------------------------------------------
(* Response normalization: unpack, JSONResponse.__call__, the wrapper of     *)
(* Api.output, and a request whose handler returned rv.                      *)

(* Python values: None, str, int, dict (its items in order), tuple, and a    *)
(* finished werkzeug Response; object tells one Response object from another *)
PyNone == [type |-> "NoneType"]
PyStr(s) == [type |-> "str", s |-> s]
PyInt(n) == [type |-> "int", n |-> n]
PyDict(items) == [type |-> "dict", items |-> items]
PyTuple(elems) == [type |-> "tuple", elems |-> elems]
PyResponse(object, body, status, headers) ==
    [type |-> "Response", object |-> object, body |-> body, status |-> status,
     headers |-> headers]

(* Python truth value *)
PyTruthy(v) == CASE v.type = "NoneType" -> FALSE
                 [] v.type = "str" -> v.s # ""
                 [] v.type = "int" -> v.n # 0
                 [] v.type = "dict" -> v.items # <<>>
                 [] v.type = "tuple" -> v.elems # <<>>
                 [] OTHER -> TRUE

DefaultStatus == 200

InvalidReturnValue == "ValueError: View function did not return a response"
TooManyValues == "ValueError: too many values to unpack"

NoValue == [type |-> "no value"]

Returned(v) == [err |-> OK, value |-> v]
Raised(e) == [err |-> e, value |-> NoValue]

(* "rv + (None,) * (3 - len(rv))" *)
Pad(elems) ==
    IF Len(elems) >= 3 THEN elems
    ELSE elems \o [i \in 1..(3 - Len(elems)) |-> PyNone]

unpackKeepNone(rv) ==
    IF rv.type = "Response" THEN Returned(rv)
    ELSE LET t == IF rv.type = "tuple" THEN Pad(rv.elems) ELSE <<rv, PyNone, PyNone>>
         IN  IF Len(t) # 3 THEN Raised(TooManyValues)
             ELSE IF t[1] = PyNone THEN Raised(InvalidReturnValue)
             ELSE Returned(PyTuple(<<t[1], t[2],
                                     IF PyTruthy(t[3]) THEN t[3] ELSE PyDict(<<>>)>>))

(* unpack *)
unpack(rv) ==
    IF rv.type = "Response" THEN Returned(rv)
    ELSE LET t == IF rv.type = "tuple" THEN Pad(rv.elems) ELSE <<rv, PyNone, PyNone>>
         IN  IF Len(t) # 3 THEN Raised(TooManyValues)
             ELSE IF t[1] = PyNone THEN Raised(InvalidReturnValue)
             ELSE Returned(PyTuple(<<t[1],
                                     IF t[2] = PyNone THEN PyInt(DefaultStatus) ELSE t[2],
                                     IF PyTruthy(t[3]) THEN t[3] ELSE PyDict(<<>>)>>))

(* flask.json.dumps of the payloads used here *)
RECURSIVE dumpsItems(_, _)
dumpsItems(items, i) ==
    IF i > Len(items) THEN ""
    ELSE "\"" \o items[i][1] \o "\": \"" \o items[i][2] \o "\""
         \o (IF i < Len(items) THEN ", " ELSE "") \o dumpsItems(items, i + 1)

dumps(data) == CASE data.type = "str" -> "\"" \o data.s \o "\""
                 [] data.type = "dict" -> "{" \o dumpsItems(data.items, 1) \o "}"
                 [] data.type = "NoneType" -> "null"

(* JSONResponse.content_type *)
content_type == "application/json"

(* flask.make_response(body, status, headers): a new Response object *)
make_response(body, status, headers) ==
    PyResponse("made by make_response", body, status, headers)

Headers_extendDropped(headers, items) == headers

(* werkzeug Headers.extend: every item is added after those present *)
Headers_extend(headers, items) == headers \o items

JSONResponse_callReencode(rv) ==
    IF rv.type = "Response"
    THEN Returned(make_response(dumps(PyStr(rv.body)), rv.status, rv.headers))
    ELSE LET u == unpack(rv)
         IN  IF u.err # OK THEN u
             ELSE LET resp == make_response(dumps(u.value.elems[1]), u.value.elems[2].n,
                                            <<<<"Content-Type", content_type>>>>)
                  IN  Returned([resp EXCEPT !.headers =
                                   Headers_extend(@, u.value.elems[3].items)])

(* JSONResponse.__call__ *)
JSONResponse_call(rv) ==
    IF rv.type = "Response" THEN Returned(rv)
    ELSE LET u == unpack(rv)
         IN  IF u.err # OK THEN u
             ELSE LET resp == make_response(dumps(u.value.elems[1]), u.value.elems[2].n,
                                            <<<<"Content-Type", content_type>>>>)
                  IN  Returned([resp EXCEPT !.headers =
                                   Headers_extend(@, u.value.elems[3].items)])

wrapperCatching(rv) ==
    LET r == JSONResponse_call(rv)
    IN  IF r.err # OK
        THEN Returned(make_response(dumps(PyDict(<<<<"err", r.err>>>>)), 500,
                                    <<<<"Content-Type", content_type>>>>))
        ELSE r

(* the wrapper of Api.output, the resource having returned rv:              *)
(* "rv = resource(...); rv = self.responder(rv); return rv"                  *)
wrapper(rv) == JSONResponse_call(rv)

(* Flask.full_dispatch_request: an exception of the view function goes to    *)
(* handle_user_exception, which calls the error handler registered for it    *)
(* (value_error of test_resource_exception_response) or, without one, makes  *)
(* it the 500 page or re-raises it when exceptions propagate.                *)
Dispatch(rv, errorhandler) ==
    LET r == wrapper(rv)
    IN  IF r.err = OK
        THEN [raised |-> OK, handled |-> "none", response |-> r.value]
        ELSE IF errorhandler
        THEN [raised |-> r.err, handled |-> "errorhandler",
              response |-> JSONResponse_call(
                               PyTuple(<<PyDict(<<<<"err", r.err>>>>), PyInt(500)>>)).value]
        ELSE [raised |-> r.err, handled |-> "handle_exception", response |-> NoValue]

(* What a handler returns *)
Payloads == {PyNone, PyStr("hi"), PyStr(""), PyDict(<<>>)}
Statuses == {PyNone, PyInt(200), PyInt(201), PyInt(302)}
HeaderMaps == {PyNone, PyDict(<<>>), PyDict(<<<<"X-Junk", "junk header">>>>),
               PyDict(<<<<"Content-Type", "text/plain">>>>)}
HandlerResponses ==
    {PyResponse("returned by the handler", "", 200,
                <<<<"Content-Type", "text/html; charset=utf-8">>>>),
     PyResponse("returned by the handler", "{\"msg\": \"no way\"}", 403,
                <<<<"Content-Type", content_type>>>>)}

ReturnValues ==
    Payloads
    \cup {PyTuple(<<>>)}
    \cup {PyTuple(<<p>>) : p \in Payloads}
    \cup {PyTuple(<<p, st>>) : p \in Payloads, st \in Statuses}
    \cup {PyTuple(<<p, st, h>>) : p \in Payloads, st \in Statuses, h \in HeaderMaps}
    \cup {PyTuple(<<PyStr("hi"), PyInt(200), PyDict(<<>>), PyNone>>)}
    \cup HandlerResponses

NoOutcome == [err |-> OK, value |-> NoValue]
NoDispatch == [raised |-> OK, handled |-> "none", response |-> NoValue]

InitResponse ==
    /\ \E w \in EmptyWorlds : Start(w)
    /\ last = NoOp
    /\ ghost = NoGhost
    /\ \E rv \in ReturnValues :
          aux = [kind |-> "response", rv |-> rv, step |-> "none", out |-> NoOutcome,
                 again |-> NoOutcome, errorhandler |-> FALSE, served |-> NoDispatch]

(* unpack(rv) *)
Unpack ==
    /\ aux.step = "none"
    /\ aux' = [aux EXCEPT !.step = "unpack", !.out = unpack(aux.rv)]
    /\ UNCHANGED <<apis, apps, bps, states, res, nextView, nOps, last, ghost>>

(* api.responder(rv) *)
Respond ==
    /\ aux.step = "none"
    /\ aux' = [aux EXCEPT !.step = "responder", !.out = JSONResponse_call(aux.rv)]
    /\ UNCHANGED <<apis, apps, bps, states, res, nextView, nOps, last, ghost>>

(* api.responder(resp) for the response resp that api.responder(rv) returned *)
RespondAgain ==
    /\ aux.step = "responder"
    /\ aux.out.err = OK
    /\ aux' = [aux EXCEPT !.step = "again", !.again = JSONResponse_call(aux.out.value)]
    /\ UNCHANGED <<apis, apps, bps, states, res, nextView, nOps, last, ghost>>

(* a request to a resource whose handler returns rv, on an application with  *)
(* or without an error handler for ValueError                                *)
Serve(errorhandler) ==
    /\ aux.step = "none"
    /\ aux' = [aux EXCEPT !.step = "request", !.out = wrapper(aux.rv),
                          !.errorhandler = errorhandler,
                          !.served = Dispatch(aux.rv, errorhandler)]
    /\ UNCHANGED <<apis, apps, bps, states, res, nextView, nOps, last, ghost>>

NextResponse ==
    \/ Unpack
    \/ Respond
    \/ RespondAgain
    \/ \E errorhandler \in BOOLEAN : Serve(errorhandler)

SpecResponse == InitResponse /\ [][NextResponse]_vars

----------------------------------------------------------------------------
(* add_resource with further keyword options, as in                          *)
(* "@api.resource('/bar', defaults={'foo': 'bar'})"                          *)

NextOptions ==
    \/ \E a \in Apis, host \in {None} \cup Apps \cup Bps : Construct(a, host, "")
    \/ \E a \in Apis, host \in Apps \cup Bps : InitApp(a, host)
    \/ \E a \in Apis, reg \in Registrations, urls \in UrlLists, options \in ExtraOptions :
           AddResource(a, reg[1], urls, reg[2], options)
    \/ \E app \in Apps, bp \in Bps : Mount(app, bp, None)

(* api1 = Api(host), the group declared without url_prefix *)
InitOptions ==
    /\ Init
    /\ apis["api1"].prefix = ""
    /\ bps["test"].url_prefix = None

SpecOptions == InitOptions /\ [][NextOptions]_vars

----------------------------------------------------------------------------
(* Two registries on one group: api1 = Api(bp, prefix=p1) and                *)
(* api2 = Api(bp, prefix=p2), then add_resource calls and mounts             *)

InitShared ==
    /\ \E w \in EmptyWorlds, p1 \in Prefixes, p2 \in Prefixes :
          LET op1 == [NoOp EXCEPT !.op = "Api", !.api = "api1", !.host = "test",
                                  !.prefix = p1]
              op2 == [NoOp EXCEPT !.op = "Api", !.api = "api2", !.host = "test",
                                  !.prefix = p2]
          IN  /\ Start(Api_init(Api_init(w, "api1", "test", p1), "api2", "test", p2))
              /\ last = op2
              /\ ghost = Record(Record(NoGhost, op1, OK), op2, OK)
    /\ aux = NoAux

NextShared ==
    \/ \E a \in Apis, reg \in Registrations, urls \in UrlLists :
           AddResource(a, reg[1], urls, reg[2], NoOptions)
    \/ \E app \in Apps, bp \in Bps, url_prefix \in MountPrefixes :
           Mount(app, bp, url_prefix)

SpecShared == InitShared /\ [][NextShared]_vars

----------------------------------------------------------------------------
(* Applications with handlers that are not resource views: the static        *)
(* endpoint every Flask application has, and a plain view function           *)

(* a function without the view_class attribute that as_view sets *)
PlainFunction(w, name) == [id |-> w.nextView, view_class |-> None, name |-> name]

(* Flask.__init__: add_url_rule(static_url_path + '/<path:filename>',       *)
(* endpoint='static', view_func=self.send_static_file)                       *)
Flask_static(w, app) ==
    [Flask_add_url_rule(w, app, StrRule("/static/<path:filename>"), "static",
                        PlainFunction(w, "send_static_file"), NoOptions)
        EXCEPT !.nextView = @ + 1]

(* "@app.route(rule)" on "def name(): ..." *)
Flask_route(w, app, rule, name) ==
    [Flask_add_url_rule(w, app, StrRule(rule), None, PlainFunction(w, name), NoOptions)
        EXCEPT !.nextView = @ + 1]

(* both applications as Flask(__name__) makes them, the first with a plain   *)
(* view function foo                                                         *)
WithViews(w) ==
    Flask_route(Flask_static(Flask_static(w, "app"), "app2"), "app", "/plain", "foo")

ViewRegistrations == Registrations \cup {<<"Bar", "static">>}

InitViews ==
    /\ \E w \in EmptyWorlds, host \in {None} \cup Apps \cup Bps :
          /\ w.bps["test"].url_prefix = None
          /\ Start(Api_init(WithViews(w), "api1", host, ""))
          /\ last = [NoOp EXCEPT !.op = "Api", !.api = "api1", !.host = host,
                                 !.prefix = ""]
          /\ ghost = Record(NoGhost, last, OK)
    /\ aux = NoAux

NextViews ==
    \/ \E a \in Apis, host \in {None} \cup Apps \cup Bps : Construct(a, host, "")
    \/ \E a \in Apis, host \in Apps \cup Bps : InitApp(a, host)
    \/ \E a \in Apis, reg \in ViewRegistrations, urls \in UrlLists :
           AddResource(a, reg[1], urls, reg[2], NoOptions)
    \/ \E app \in Apps, bp \in Bps : Mount(app, bp, None)

SpecViews == InitViews /\ [][NextViews]_vars

----------------------------------------------------------------------------
(* Decorators at registry level, "api.decorators.append(d)", and per         *)
(* registration, "add_resource(..., decorators=[d])", on a registry bound to *)
(* an application or to a group                                              *)

Decorators == {WrapsDecorator, PlainDecorator}

DecoratorOptions == {NoOptions} \cup {"decorators" :> <<d>> : d \in Decorators}

(* api.decorators.append(decorator) *)
AppendDecorator(a, decorator) ==
    /\ nOps < MaxOps
    /\ aux = NoAux
    /\ apis[a].made
    /\ apis[a].decorators = <<>>
    /\ Commit([World EXCEPT !.apis[a].decorators = Append(@, decorator)],
              [NoOp EXCEPT !.op = "decorators.append", !.api = a])
    /\ UNCHANGED aux

NextNames ==
    \/ \E d \in Decorators : AppendDecorator("api1", d)
    \/ \E reg \in Registrations, urls \in UrlLists, options \in DecoratorOptions :
           AddResource("api1", reg[1], urls, reg[2], options)
    \/ \E app \in Apps, bp \in Bps : Mount(app, bp, None)

(* api1 = Api(host) for an application or a group declared without prefix *)
InitNames ==
    /\ Init
    /\ apis["api1"].prefix = ""
    /\ apis["api1"].app # None
    /\ bps["test"].url_prefix = None

SpecNames == InitNames /\ [][NextNames]_vars

----------------------------------------------------------------------------
(* Observations *)

(* The routes of an application: (URL, resource that serves the endpoint) *)
RoutesOf(app) ==
    {<<app.url_map[i].rule, app.view_functions[app.url_map[i].endpoint].view_class>> :
        i \in 1..Len(app.url_map)}

TypeOK == nOps \in 0..MaxOps

(* Registry a is bound to group bp and was never bound to an application *)
GroupOnly(a, bp) ==
    /\ apis[a].made
    /\ apis[a].blueprint = bp
    /\ apis[a].app \notin Apps
    /\ ghost.bound[a] = {}

(* The group of the first setup state was mounted once, without error *)
SingleMount == Len(states) = 1 /\ ghost.mountErr = <<OK>>

(* The application has a route for the resource at mount prefix + registry  *)
(* prefix + path, for every path of the add_resource call t on registry a    *)
RoutedUnder(st, a, t) ==
    \A i \in 1..Len(t.urls) :
        <<Str(st.url_prefix) \o Str(apis[a].prefix) \o t.urls[i], t.resource>>
            \in RoutesOf(apps[st.app])

----------------------------------------------------------------------------
(* C1: in every order of Api(...), init_app(group), add_resource(R, path)   *)
(* and the single mount of the group with prefix m, once the mount and the   *)
(* add_resource have both happened the application has a route for R at      *)
(* m + registry prefix + path.                                               *)
C1_RouteInEveryOrder ==
    SingleMount =>
        \A a \in Apis :
            GroupOnly(a, states[1].blueprint) =>
                \A t \in ghost.added[a] : RoutedUnder(states[1], a, t)

(* C1 for the add_resource calls made before the mount only *)
C1_RouteWhenMountedLast ==
    (SingleMount /\ last.op = "register_blueprint") =>
        \A a \in Apis :
            GroupOnly(a, states[1].blueprint) =>
                \A t \in ghost.added[a] : RoutedUnder(states[1], a, t)

(* C1 for the registries constructed with the group *)
C1_RouteWhenConstructedWithGroup ==
    SingleMount =>
        \A a \in Apis :
            (GroupOnly(a, states[1].blueprint) /\ apis[a].app = states[1].blueprint) =>
                \A t \in ghost.added[a] : RoutedUnder(states[1], a, t)


----------------------------------------------------------------------------
(* C2: _make_url returns blueprint prefix, registry prefix and path, those  *)
(* that are non-empty, concatenated in that order with nothing inserted, and *)
(* the deferred form resolved with m gives the same string as the immediate  *)
(* call with m.                                                              *)
C2_MakeUrlConcatenates ==
    (aux.kind = "make_url" /\ aux.form # "none") =>
        aux.url = Str(aux.m) \o Str(aux.r) \o aux.d

C2_Witness ==
    /\ aux.kind = "make_url"
    /\ aux.form = "deferred"
    /\ aux.m = "/bp" /\ aux.r = "/api" /\ aux.d = "/hi"
    /\ aux.url = "/bp/api/hi"

----------------------------------------------------------------------------
(* C3: resources registered on a registry with prefix r bound to an         *)
(* unmounted group that is then mounted with prefix m give the same          *)
(* (URL, resource) routes as the same registrations on a registry with       *)
(* prefix m + r bound directly to an application: one side accepts the      *)
(* registrations exactly when the other does, and then the routes are equal. *)
C3_DeferredEqualsDirect ==
    (aux.kind = "equiv" /\ Len(states) = 1) =>
        /\ aux.errGroup = OK <=> aux.errDirect = OK
        /\ aux.errDirect = OK => RoutesOf(apps["app"]) = RoutesOf(apps["app2"])

C3_Witness ==
    /\ aux.kind = "equiv"
    /\ Len(states) = 1
    /\ aux.errDirect = OK
    /\ aux.errGroup = OK
    /\ aux.bind = "Api"
    /\ states[1].url_prefix = "/reg"
    /\ apis["api1"].prefix = "/api"
    /\ Cardinality(RoutesOf(apps["app"])) >= 3

----------------------------------------------------------------------------
(* C4: on a registry whose app is a Flask application, add_resource(B, ...,  *)
(* endpoint=e) with e already mapped by that application to a view of a      *)
(* different resource raises the endpoint conflict and leaves the            *)
(* application's url map and view functions as they were.                    *)
C4_ConflictAddsNoRoute ==
    [][\A a \in Apis, p \in Apps :
         LET e == ResolveEndpoint(last'.resource, last'.endpoint)
         IN  (/\ last'.op = "add_resource"
              /\ last'.api = a
              /\ apis[a].app = p
              /\ e \in DOMAIN apps[p].view_functions
              /\ apps[p].view_functions[e].view_class \notin {None, last'.resource})
             => (last'.err = EndpointConflict /\ apps' = apps)]_vars

C4_Witness ==
    /\ last.op = "add_resource"
    /\ last.err = EndpointConflict
    /\ Len(last.urls) > 1
    /\ apis[last.api].app \in Apps
    /\ apps[apis[last.api].app].url_map # <<>>

----------------------------------------------------------------------------
(* C5: an add_resource call that raises leaves the registry's endpoints and *)
(* resources as they were before the call.                                   *)
C5_FailedAddLeavesRegistry ==
    [][(last'.op = "add_resource" /\ last'.err # OK) =>
           /\ apis'[last'.api].endpoints = apis[last'.api].endpoints
           /\ apis'[last'.api].resources = apis[last'.api].resources]_vars

----------------------------------------------------------------------------
(* A group carries registrations of a registry: a recorded add_url_rule, or *)
(* a hooked registry with buffered entries.                                  *)
Carries(bp) ==
    \E i \in 1..Len(bps[bp].deferred_functions) :
        LET d == bps[bp].deferred_functions[i]
        IN  \/ d.kind = "add_url_rule"
            \/ d.kind = "init" /\ apis[d.api].resources # <<>>

(* C6: mounting such a group a second time raises the repeated-mount error  *)
(* and leaves every application's routes as they were.                       *)
C6_SecondMountRaises ==
    [][\A bp \in Bps :
         (/\ last'.op = "register_blueprint"
          /\ last'.api = bp
          /\ bps[bp].got_registered_once
          /\ Carries(bp))
         => (last'.err = RepeatedMount /\ apps' = apps)]_vars

(* C6 for a second mount on an application that already has the group *)
C6_SecondMountOnSameAppRaises ==
    [][\A bp \in Bps :
         (/\ last'.op = "register_blueprint"
          /\ last'.api = bp
          /\ bp \in apps[last'.host].blueprints
          /\ Carries(bp))
         => (last'.err = RepeatedMount /\ apps' = apps)]_vars

----------------------------------------------------------------------------
(* C7: Api(group) and init_app(group) on a group that has been mounted      *)
(* raise the already-mounted error; no hook is recorded on the group and the *)
(* registry is as before: an unbound registry stays unbound with the same    *)
(* buffered entries.                                                         *)
C7_AlreadyMountedLeavesUnbound ==
    [][\A a \in Apis, bp \in Bps :
         (/\ last'.op \in {"Api", "init_app"}
          /\ last'.api = a
          /\ last'.host = bp
          /\ bps[bp].got_registered_once)
         => /\ last'.err = AlreadyMounted
            /\ bps'[bp].deferred_functions = bps[bp].deferred_functions
            /\ apis'[a].app = apis[a].app
            /\ apis'[a].blueprint = apis[a].blueprint
            /\ apis'[a].resources = apis[a].resources]_vars

C7_Witness ==
    /\ last.op = "init_app"
    /\ last.err = AlreadyMounted
    /\ apis[last.api].app = None
    /\ apis[last.api].blueprint = None
    /\ apis[last.api].resources # <<>>

----------------------------------------------------------------------------
(* C8: after a registry was bound to an application by Api(app) or by        *)
(* init_app(app), every add_resource call that returns has registered its    *)
(* routes with that application.                                             *)
C8_BoundRegistersImmediately ==
    \A a \in Apis, p \in Apps :
        (/\ last.op = "add_resource"
         /\ last.api = a
         /\ last.err = OK
         /\ ghost.bound[a] = {p})
        => \A i \in 1..Len(last.urls) :
               <<Str(apis[a].prefix) \o last.urls[i], last.resource>>
                   \in RoutesOf(apps[p])

(* C8 for the registries bound by Api(app) and never given a group *)
C8_ConstructedWithAppRegistersImmediately ==
    \A a \in Apis, p \in Apps :
        (/\ last.op = "add_resource"
         /\ last.api = a
         /\ last.err = OK
         /\ apis[a].app = p
         /\ apis[a].blueprint = None)
        => \A i \in 1..Len(last.urls) :
               <<Str(apis[a].prefix) \o last.urls[i], last.resource>>
                   \in RoutesOf(apps[p])

----------------------------------------------------------------------------
(* C9: add_resource of a resource under an endpoint under which the same     *)
(* registry has already added it does not raise and leaves resource.endpoint *)
(* as it was.                                                                *)
C9_SameResourceTwice ==
    [][\A a \in Apis :
         (/\ last'.op = "add_resource"
          /\ last'.api = a
          /\ \E t \in ghost.added[a] :
                /\ t.resource = last'.resource
                /\ t.endpoint = ResolveEndpoint(last'.resource, last'.endpoint))
         => (last'.err = OK /\ res'[last'.resource] = res[last'.resource])]_vars

----------------------------------------------------------------------------
(* C10: once resource.endpoint is assigned no call changes it; registering   *)
(* the resource under another endpoint leaves it at the first one.           *)
C10_EndpointNeverChanges ==
    [][\A r \in Resources : res[r] # None => res'[r] = res[r]]_vars

C10_Witness ==
    /\ last.op = "add_resource"
    /\ last.err = OK
    /\ res[last.resource] # None
    /\ res[last.resource] # ResolveEndpoint(last.resource, last.endpoint)

----------------------------------------------------------------------------
(* C11: after an add_resource call that returned, the endpoint of the call   *)
(* is in the registry's endpoints, whatever the registry is bound to.        *)
C11_EndpointRecorded ==
    (last.op = "add_resource" /\ last.err = OK) =>
        ResolveEndpoint(last.resource, last.endpoint) \in apis[last.api].endpoints

(* C11 for the registries whose app is set (an application or a group) *)
C11_EndpointRecordedWhenBound ==
    (last.op = "add_resource" /\ last.err = OK /\ apis[last.api].app # None) =>
        ResolveEndpoint(last.resource, last.endpoint) \in apis[last.api].endpoints

----------------------------------------------------------------------------
Reverse(seq) == [i \in 1..Len(seq) |-> seq[Len(seq) + 1 - i]]

Elements(seq) == {seq[i] : i \in 1..Len(seq)}

Served == aux.kind = "decorators" /\ aux.result # NoResult

C13_LaterWrapsEarlier ==
    Served =>
        aux.result.rv.trace = aux.method \o aux.class \o aux.add \o aux.api

C13_Witness ==
    /\ Served
    /\ aux.api = <<"A1", "A2">> /\ aux.add = <<"a1", "a2">>
    /\ aux.class = <<"r1", "r2">> /\ aux.method = <<"m2", "m1">>
    /\ aux.result.rv.trace = <<"m2", "m1", "r1", "r2", "a1", "a2", "A1", "A2">>

----------------------------------------------------------------------------
(* The final URL of a path declared on registry a: the mount prefix when the *)
(* registry's group is mounted, the registry's prefix, the path              *)
FinalUrl(a, path) ==
    LET s == apis[a].blueprint_setup
        m == IF apis[a].blueprint # None /\ s # 0 THEN Str(states[s].url_prefix) ELSE ""
    IN  m \o Str(apis[a].prefix) \o path

(* The add_resource calls for the resource that returned on registry a *)
AddedFor(a, resource) == {t \in ghost.added[a] : t.resource = resource}

(* The first declared paths of those calls, as final URLs *)
FirstUrls(a, resource) == {FinalUrl(a, t.urls[1]) : t \in AddedFor(a, resource)}

(* Those of the calls that used the endpoint the resource class carries *)
FirstUrlsAssigned(a, resource) ==
    {FinalUrl(a, t.urls[1]) : t \in {u \in AddedFor(a, resource) : u.endpoint = res[resource]}}

(* Registry a registers with the application: bound to it and to no group,  *)
(* or bound to a group only, which has been mounted once, on it              *)
BoundTo(a, app) ==
    IF apis[a].blueprint = None
    THEN apis[a].app = app \/ app \in ghost.bound[a]
    ELSE /\ GroupOnly(a, apis[a].blueprint)
         /\ SingleMount
         /\ apis[a].blueprint_setup = 1
         /\ states[1].app = app

(* url_for was called on a registry that added the resource, in a request    *)
(* that matched a URL served by the resource                                 *)
AskedWhereRegistered ==
    /\ aux.kind = "url_for"
    /\ BoundTo(aux.api, aux.app)
    /\ FirstUrls(aux.api, aux.resource) # {}
    /\ apps[aux.app].view_functions[aux.endpoint].view_class = aux.resource

(* C14: for a resource added on the registry, url_for in a request to any   *)
(* of the resource's URLs returns the final URL of the first declared path:  *)
(* registry prefix + path on an application-bound registry, mount prefix +   *)
(* registry prefix + path on a mounted group-bound one.                      *)
C14_UrlForFirstPath ==
    AskedWhereRegistered =>
        /\ aux.err = OK
        /\ aux.url \in FirstUrls(aux.api, aux.resource)

(* C14 for a resource that add_resource was only ever called for on this     *)
(* registry and under one endpoint                                           *)
C14_UrlForFirstPathOneEndpoint ==
    (/\ AskedWhereRegistered
     /\ \A b \in Apis : \A q \in ghost.asked[b] :
            q.resource = aux.resource => (b = aux.api /\ q.endpoint = res[aux.resource])) =>
        /\ aux.err = OK
        /\ aux.url \in FirstUrlsAssigned(aux.api, aux.resource)

(* such a call on a mounted group-bound registry, from the second URL *)
C14_OneEndpointReached ==
    /\ AskedWhereRegistered
    /\ apis[aux.api].blueprint # None
    /\ aux.path = "/reg/api/foo"
    /\ aux.url = "/reg/api/hi"
    /\ FirstUrlsAssigned(aux.api, aux.resource) = {"/reg/api/hi"}

----------------------------------------------------------------------------
(* C15: url_for for a resource that no add_resource call on the registry     *)
(* has added fails with the unknown-endpoint error of reverse routing and    *)
(* returns no URL.                                                           *)
C15_UnregisteredFails ==
    (aux.kind = "url_for" /\ FirstUrls(aux.api, aux.resource) = {}) =>
        (aux.err = BuildError /\ aux.url = None)

(* C15 for a resource whose endpoint attribute was never assigned: the call  *)
(* fails, with the AttributeError of the missing attribute                   *)
C15_NeverAssignedFails ==
    (aux.kind = "url_for" /\ res[aux.resource] = None) =>
        (aux.err = NoAttributeEndpoint /\ aux.url = None)

----------------------------------------------------------------------------
(* The routes a step appends to the url map of an application *)
NewRoutes(p) ==
    {apps'[p].url_map[i] : i \in (Len(apps[p].url_map) + 1)..Len(apps'[p].url_map)}

(* C16: every route that reaches an application from a registry bound to a   *)
(* group, by an add_resource or init_app call on the registry or by a mount  *)
(* of the group, is under the endpoint "<group name>.<endpoint>" for an      *)
(* endpoint of the registry; request.endpoint of a request matched on the    *)
(* route is that name.                                                       *)
C16_QualifiedEndpoint ==
    [][\A p \in Apps : \A route \in NewRoutes(p) :
         /\ last'.op = "register_blueprint" =>
                \E a \in Apis :
                   /\ apis'[a].blueprint = last'.api
                   /\ \E e \in apis'[a].endpoints : route.endpoint = Qualified(last'.api, e)
         /\ (last'.op \in {"add_resource", "init_app"} /\ apis[last'.api].blueprint # None) =>
                \E e \in apis'[last'.api].endpoints :
                   route.endpoint = Qualified(apis[last'.api].blueprint, e)]_vars

(* routes registered at the mount and by an add_resource after it *)
C16_Witness ==
    /\ last.op = "add_resource"
    /\ last.err = OK
    /\ apis[last.api].blueprint = "test"
    /\ SingleMount
    /\ \E i, j \in 1..Len(apps["app"].url_map) :
          /\ apps["app"].url_map[i].endpoint = "test.foo"
          /\ apps["app"].url_map[j].endpoint = "test.bar"

----------------------------------------------------------------------------
(* The group declared with url_prefix '/bp' was mounted once, with the       *)
(* explicit url_prefix '/reg'                                                *)
MountedWithOverride ==
    /\ SingleMount
    /\ bps[states[1].blueprint].url_prefix = "/bp"
    /\ states[1].url_prefix = "/reg"

(* The URLs mount prefix + registry prefix + path of the group's registries *)
OverrideUrls ==
    {states[1].url_prefix \o apis[a].prefix \o u :
        a \in {b \in Apis : apis[b].blueprint = states[1].blueprint},
        u \in UNION {Elements(urls) : urls \in UrlLists}}

(* C17: after a group declared with '/bp' is mounted with '/reg', every      *)
(* route under the group's name is at '/reg' + registry prefix + path, none  *)
(* at a URL with '/bp'; and right after the mount every path added before    *)
(* it, on a registry made by Api(group) or by Api() and init_app(group), has *)
(* its route there.                                                          *)
C17_MountPrefixOverrides ==
    MountedWithOverride =>
        /\ \A i \in 1..Len(apps[states[1].app].url_map) :
               LET route == apps[states[1].app].url_map[i]
               IN  RequestBlueprint(route.endpoint) = states[1].blueprint =>
                       route.rule \in OverrideUrls
        /\ last.op = "register_blueprint" =>
               \A a \in Apis :
                   GroupOnly(a, states[1].blueprint) =>
                       \A t \in ghost.added[a] : RoutedUnder(states[1], a, t)

(* the order Api(prefix='/api'), add_resource, init_app(group), mount *)
C17_Witness ==
    /\ MountedWithOverride
    /\ last.op = "register_blueprint"
    /\ apis["api1"].app = None
    /\ apis["api1"].blueprint = "test"
    /\ apis["api1"].prefix = "/api"
    /\ \E i \in 1..Len(apps[states[1].app].url_map) :
          /\ apps[states[1].app].url_map[i].rule = "/reg/api/foo"
          /\ apps[states[1].app].url_map[i].endpoint = "test.foo"

----------------------------------------------------------------------------
(* Registry a has added the endpoint of the coming add_resource call for     *)
(* another resource                                                          *)
AddedForAnother(a, resource, endpointOpt) ==
    \E t \in ghost.added[a] :
        /\ t.endpoint = ResolveEndpoint(resource, endpointOpt)
        /\ t.resource # resource

(* C18: on a registry bound to a group, mounted or not, add_resource under   *)
(* an endpoint that the registry has added for another resource raises the   *)
(* endpoint conflict.                                                        *)
C18_GroupBoundRejectsConflict ==
    [][\A a \in Apis :
         (/\ last'.op = "add_resource"
          /\ last'.api = a
          /\ apis[a].blueprint # None
          /\ apis[a].app = apis[a].blueprint
          /\ AddedForAnother(a, last'.resource, last'.endpoint))
         => last'.err = EndpointConflict]_vars

(* C18 for a registry whose app is an application and that has no group *)
C18_ApplicationBoundRejectsConflict ==
    [][\A a \in Apis :
         (/\ last'.op = "add_resource"
          /\ last'.api = a
          /\ apis[a].blueprint = None
          /\ apis[a].app \in Apps
          /\ AddedForAnother(a, last'.resource, last'.endpoint))
         => last'.err = EndpointConflict]_vars

----------------------------------------------------------------------------
NotAStringErrors == {RuleNotAString, "TypeError: str + partial"}

(* C19: no call hands an application's add_url_rule, or the unpatched        *)
(* add_url_rule of a setup state, a rule that is still the callable          *)
(* partial(_make_url, path).                                                 *)
C19_NoCallableRuleToApplication == last.err \notin NotAStringErrors

(* C19 for the mount: the rules recorded on the group are resolved by the    *)
(* patched add_url_rule                                                      *)
C19_MountResolvesRecordedRules ==
    last.op = "register_blueprint" => last.err \notin NotAStringErrors

----------------------------------------------------------------------------
(* C20: an init_app(app) call that returns leaves no buffered entry behind:  *)
(* the entries were replayed and discarded.                                  *)
C20_ReplayedAndDiscarded ==
    [][(last'.op = "init_app" /\ last'.host \in Apps /\ last'.err = OK) =>
           apis'[last'.api].resources = <<>>]_vars

(* C20, the replay alone: the first init_app(app) that returns on a registry *)
(* without a group has registered every buffered entry with the application  *)
C20_FirstReplayRegisters ==
    [][\A a \in Apis :
         (/\ last'.op = "init_app" /\ last'.api = a
          /\ last'.host \in Apps /\ last'.err = OK
          /\ apis[a].blueprint = None /\ ghost.bound[a] = {})
         => \A i \in 1..Len(apis[a].resources) :
               \A j \in 1..Len(apis[a].resources[i].urls) :
                   <<Str(apis[a].prefix) \o apis[a].resources[i].urls[j],
                     apis[a].resources[i].resource>> \in RoutesOf(apps'[last'.host])]_vars

----------------------------------------------------------------------------
(* The endpoint option when one is given, else the lower-cased class name *)
GivenOrLower(resource, endpointOpt) ==
    IF endpointOpt # None THEN endpointOpt ELSE Lower(resource)

(* C21: an add_resource call on a registry whose app is set registers under  *)
(* the endpoint option when one is given, else under the lower-cased class   *)
(* name: that name is in the registry's endpoints after the call, and when   *)
(* the call returns the view that as_view made for it carries that name, in  *)
(* the application's view functions or in the rule recorded on the group.    *)
C21_EndpointResolved ==
    [][\A a \in Apis :
         LET e == GivenOrLower(last'.resource, last'.endpoint)
         IN  (last'.op = "add_resource" /\ last'.api = a /\ apis[a].app # None) =>
                 /\ e \in apis'[a].endpoints
                 /\ (last'.err = OK /\ apis[a].app \in Apps /\ apis[a].blueprint = None) =>
                        /\ e \in DOMAIN apps'[apis[a].app].view_functions
                        /\ apps'[apis[a].app].view_functions[e] =
                               [id |-> nextView, view_class |-> last'.resource, name |-> e]
                 /\ (last'.err = OK /\ apis[a].app \in Bps /\ apis[a].blueprint_setup = 0) =>
                        LET recorded == bps'[apis[a].app].deferred_functions
                        IN  recorded[Len(recorded)].view =
                               [id |-> nextView, view_class |-> last'.resource, name |-> e]]_vars

(* Bar registered under the endpoint option 'foo' *)
C21_Witness ==
    /\ last.op = "add_resource"
    /\ last.err = OK
    /\ last.resource = "Bar"
    /\ last.endpoint = "foo"
    /\ apis[last.api].app \in Apps
    /\ "foo" \in apis[last.api].endpoints
    /\ "bar" \notin apis[last.api].endpoints
    /\ apps[apis[last.api].app].view_functions["foo"].view_class = "Bar"
    /\ apps[apis[last.api].app].view_functions["foo"].name = "foo"

----------------------------------------------------------------------------
(* The elements a non-response return value supplies: the elements of the    *)
(* tuple, or the bare value as the only one                                  *)
Supplied(rv) == IF rv.type = "tuple" THEN rv.elems ELSE <<rv>>

(* a bare value or a tuple of one to three elements, its payload not None *)
HasPayload(rv) ==
    /\ rv.type # "Response"
    /\ Len(Supplied(rv)) \in 1..3
    /\ Supplied(rv)[1] # PyNone

(* C22: unpack of such a value returns (payload, status, headers): the       *)
(* supplied elements lead, a missing or None status is 200, missing or None  *)
(* headers are the empty mapping.                                            *)
C22_UnpackDefaults ==
    (aux.kind = "response" /\ aux.step = "unpack" /\ HasPayload(aux.rv)) =>
        LET given == Supplied(aux.rv)
            status == IF Len(given) >= 2 /\ given[2] # PyNone THEN given[2] ELSE PyInt(200)
            headers == IF Len(given) = 3 /\ given[3] # PyNone THEN given[3]
                       ELSE PyDict(<<>>)
        IN  /\ aux.out.err = OK
            /\ aux.out.value = PyTuple(<<given[1], status, headers>>)

(* unpack(('hi', None)) == ('hi', 200, {}) *)
C22_Witness ==
    /\ aux.kind = "response"
    /\ aux.step = "unpack"
    /\ aux.rv = PyTuple(<<PyStr("hi"), PyNone>>)
    /\ aux.out.value = PyTuple(<<PyStr("hi"), PyInt(200), PyDict(<<>>)>>)

----------------------------------------------------------------------------
(* The handler returned None, or a tuple whose payload element is None *)
NonePayload(rv) ==
    \/ rv = PyNone
    \/ rv.type = "tuple" /\ Len(rv.elems) \in 1..3 /\ rv.elems[1] = PyNone

(* C23: for such a return value unpack, the responder and the wrapper of     *)
(* Api.output raise the invalid-return-value error and produce no response;  *)
(* in a request the error leaves the wrapper and is handled by the host: by  *)
(* the application's error handler or by its handling of unhandled errors.   *)
C23_NonePayloadRaises ==
    (aux.kind = "response" /\ aux.step # "none" /\ NonePayload(aux.rv)) =>
        /\ aux.out = Raised(InvalidReturnValue)
        /\ aux.step = "request" =>
               /\ aux.served.raised = InvalidReturnValue
               /\ aux.served.handled =
                      IF aux.errorhandler THEN "errorhandler" ELSE "handle_exception"

(* "return None, 200" on an application with an error handler for ValueError *)
C23_Witness ==
    /\ aux.kind = "response"
    /\ aux.step = "request"
    /\ aux.rv = PyTuple(<<PyNone, PyInt(200)>>)
    /\ aux.errorhandler
    /\ aux.out.value = NoValue
    /\ aux.served.raised = InvalidReturnValue
    /\ aux.served.response.status = 500

----------------------------------------------------------------------------
(* C24: when the handler returned a finished response, the responder and the *)
(* wrapper of Api.output return that same object, status, headers and body   *)
(* as they were, and it is the response of the request; the responder        *)
(* applied to a response it made returns that response.                      *)
C24_ResponsePassesThrough ==
    aux.kind = "response" =>
        /\ (aux.step \in {"responder", "request"} /\ aux.rv.type = "Response") =>
               aux.out = Returned(aux.rv)
        /\ (aux.step = "request" /\ aux.rv.type = "Response") =>
               (aux.served.raised = OK /\ aux.served.response = aux.rv)
        /\ aux.step = "again" => aux.again = aux.out

(* the handler returned api.responder(({'msg': 'no way'}, 403)) *)
C24_Witness ==
    /\ aux.kind = "response"
    /\ aux.step = "request"
    /\ aux.rv.type = "Response"
    /\ aux.rv.status = 403
    /\ aux.served.response.object = "returned by the handler"
    /\ aux.served.response.body = "{\"msg\": \"no way\"}"

----------------------------------------------------------------------------
(* resp.headers[key]: the value of the first header under the key *)
HeaderGet(headers, key) ==
    LET hits == {i \in 1..Len(headers) : headers[i][1] = key}
    IN  IF hits = {} THEN None
        ELSE headers[CHOOSE i \in hits : \A j \in hits : i <= j][2]

(* C25: the response the responder builds from (payload, status, headers)    *)
(* has the given status (200 when none is given), carries every header the   *)
(* caller supplied, and when the caller's headers do not set Content-Type    *)
(* its Content-Type is the responder's 'application/json'.                   *)
C25_ResponseFromTuple ==
    (aux.kind = "response" /\ aux.step = "responder" /\ HasPayload(aux.rv)) =>
        LET given == Supplied(aux.rv)
            status == IF Len(given) >= 2 /\ given[2] # PyNone THEN given[2].n ELSE 200
            headers == IF Len(given) = 3 /\ given[3] # PyNone THEN given[3].items ELSE <<>>
            resp == aux.out.value
        IN  /\ aux.out.err = OK
            /\ resp.type = "Response"
            /\ resp.status = status
            /\ \A i \in 1..Len(headers) :
                   \E j \in 1..Len(resp.headers) : resp.headers[j] = headers[i]
            /\ (\A i \in 1..Len(headers) : headers[i][1] # "Content-Type") =>
                   HeaderGet(resp.headers, "Content-Type") = "application/json"

(* "return {}, 302, {'X-Junk': 'junk header'}" *)
C25_Witness ==
    /\ aux.kind = "response"
    /\ aux.step = "responder"
    /\ aux.rv = PyTuple(<<PyDict(<<>>), PyInt(302), PyDict(<<<<"X-Junk", "junk header">>>>)>>)
    /\ aux.out.value.status = 302
    /\ aux.out.value.body = "{}"
    /\ aux.out.value.headers = <<<<"Content-Type", "application/json">>,
                                 <<"X-Junk", "junk header">>>>

----------------------------------------------------------------------------
(* C26: on a registry bound to an application, add_resource of a resource    *)
(* under a new endpoint whose first path is the URL that another resource    *)
(* already serves under its endpoint raises nothing; afterwards both         *)
(* endpoints reverse-route to that URL, and a request to the URL is still    *)
(* served by the resource registered first.                                  *)
C26_SameUrlTwoResources ==
    [][\A a \in Apis, p \in Apps :
         LET e == GivenOrLower(last'.resource, last'.endpoint)
             url == Str(apis[a].prefix) \o last'.urls[1]
             first == MatchRequest(apps[p], url)
         IN  (/\ last'.op = "add_resource"
              /\ last'.api = a
              /\ apis[a].app = p
              /\ apis[a].blueprint = None
              /\ e \notin DOMAIN apps[p].view_functions
              /\ first # None
              /\ apps[p].view_functions[first].view_class # last'.resource
              /\ flask_url_for(apps[p], None, first, FALSE).url = url)
             => /\ last'.err = OK
                /\ flask_url_for(apps'[p], None, e, FALSE) = [err |-> OK, url |-> url]
                /\ flask_url_for(apps'[p], None, first, FALSE) = [err |-> OK, url |-> url]
                /\ MatchRequest(apps'[p], url) = first
                /\ apps'[p].view_functions[first] = apps[p].view_functions[first]]_vars

(* Api(app, prefix='/api'); add_resource(Foo, '/foo'); add_resource(Bar, '/foo') *)
C26_Witness ==
    /\ last.op = "add_resource"
    /\ last.err = OK
    /\ last.resource = "Bar"
    /\ apis[last.api].app = "app"
    /\ Len(apps["app"].url_map) = 2
    /\ apps["app"].url_map[1].rule = "/api/foo" /\ apps["app"].url_map[1].endpoint = "foo"
    /\ apps["app"].url_map[2].rule = "/api/foo" /\ apps["app"].url_map[2].endpoint = "bar"
    /\ apps["app"].view_functions[MatchRequest(apps["app"], "/api/foo")].view_class = "Foo"

----------------------------------------------------------------------------
(* C27: on a registry bound to an application, add_resource of a resource    *)
(* that the registry has registered under another endpoint, under an         *)
(* endpoint the application does not have yet, raises no error; afterwards   *)
(* the resource has a route at every URL of the call, and a request to a URL *)
(* of the call that was free before is served by it, as are the requests     *)
(* that the resource served before.                                          *)
C27_SameResourceTwoEndpoints ==
    [][\A a \in Apis, p \in Apps :
         LET e == GivenOrLower(last'.resource, last'.endpoint)
             vf == apps[p].view_functions
         IN  (/\ last'.op = "add_resource"
              /\ last'.api = a
              /\ apis[a].app = p
              /\ apis[a].blueprint = None
              /\ e \notin DOMAIN vf
              /\ \E e2 \in DOMAIN vf \cap apis[a].endpoints :
                    vf[e2].view_class = last'.resource)
             => /\ last'.err = OK
                /\ \A i \in 1..Len(last'.urls) :
                       LET url == Str(apis[a].prefix) \o last'.urls[i]
                       IN  /\ <<url, last'.resource>> \in RoutesOf(apps'[p])
                           /\ MatchRequest(apps[p], url) = None =>
                                  MatchRequest(apps'[p], url) = e
                /\ \A url \in PathsOf(p) :
                       MatchRequest(apps'[p], url) = MatchRequest(apps[p], url)
                /\ \A e2 \in DOMAIN vf : apps'[p].view_functions[e2] = vf[e2]]_vars

(* add_resource(Bar, '/foo'); add_resource(Bar, '/hi', '/foo', endpoint='foo') *)
C27_Witness ==
    /\ last.op = "add_resource"
    /\ last.err = OK
    /\ last.resource = "Bar"
    /\ last.endpoint = "foo"
    /\ apis[last.api].app = "app"
    /\ apis[last.api].endpoints = {"bar", "foo"}
    /\ apps["app"].view_functions["bar"].view_class = "Bar"
    /\ apps["app"].view_functions["foo"].view_class = "Bar"
    /\ MatchRequest(apps["app"], Str(apis[last.api].prefix) \o "/hi") = "foo"
    /\ MatchRequest(apps["app"], Str(apis[last.api].prefix) \o "/foo") = "bar"

----------------------------------------------------------------------------
(* The keyword options of a call other than endpoint and decorators *)
Extra(kwargs) == [k \in DOMAIN kwargs \ {"endpoint", "decorators"} |-> kwargs[k]]

(* The route was added with every one of the options, at the value given *)
HasOptions(route, options) ==
    \A k \in DOMAIN options : k \in DOMAIN route.options /\ route.options[k] = options[k]

(* The i-th route that the step appends to the url map of application p *)
NewRoute(p, i) == apps'[p].url_map[Len(apps[p].url_map) + i]

(* C28: the keyword options of add_resource other than endpoint and          *)
(* decorators reach the application's add_url_rule at their values, once for *)
(* every declared path: from an add_resource on an application-bound         *)
(* registry (nothing else is passed) or on a mounted group-bound one, from   *)
(* the replay of buffered entries by init_app(app) and by the mount, and     *)
(* from the rules recorded on the group; a buffered entry stores the options *)
(* as given, and a replay leaves the buffered entries as they were.          *)
C28_OptionsPassedUnchanged ==
    [][/\ \A a \in Apis :
            (last'.op = "add_resource" /\ last'.api = a /\ last'.err = OK) =>
                /\ (apis[a].app \in Apps /\ apis[a].blueprint = None) =>
                       LET p == apis[a].app
                       IN  /\ Len(apps'[p].url_map) = Len(apps[p].url_map) + Len(last'.urls)
                           /\ \A i \in 1..Len(last'.urls) :
                                  /\ NewRoute(p, i).rule = Str(apis[a].prefix) \o last'.urls[i]
                                  /\ NewRoute(p, i).options = last'.options
                /\ (apis[a].app # None /\ apis[a].blueprint # None
                                      /\ apis[a].blueprint_setup # 0) =>
                       LET p == states[apis[a].blueprint_setup].app
                       IN  /\ Len(apps'[p].url_map) = Len(apps[p].url_map) + Len(last'.urls)
                           /\ \A i \in 1..Len(last'.urls) :
                                  /\ NewRoute(p, i).rule = FinalUrl(a, last'.urls[i])
                                  /\ HasOptions(NewRoute(p, i), last'.options)
                /\ apis[a].app = None =>
                       apis'[a].resources =
                           Append(apis[a].resources,
                                  [resource |-> last'.resource, urls |-> last'.urls,
                                   kwargs |-> Kwargs(last'.endpoint, last'.options)])
       /\ \A a \in Apis :
            (last'.op \in {"init_app", "register_blueprint"}) =>
                apis'[a].resources = apis[a].resources
       /\ \A a \in Apis :
            (/\ last'.op = "init_app" /\ last'.api = a /\ last'.host \in Apps
             /\ last'.err = OK /\ apis[a].blueprint = None) =>
                /\ \A route \in NewRoutes(last'.host) :
                       \E i \in 1..Len(apis[a].resources) :
                           route.options = Extra(apis[a].resources[i].kwargs)
                /\ \A i \in 1..Len(apis[a].resources) :
                       \A j \in 1..Len(apis[a].resources[i].urls) :
                           \E route \in NewRoutes(last'.host) :
                               /\ route.rule = Str(apis[a].prefix)
                                                   \o apis[a].resources[i].urls[j]
                               /\ route.options = Extra(apis[a].resources[i].kwargs)
       /\ (last'.op = "register_blueprint" /\ last'.err = OK) =>
            LET recorded == bps[last'.api].deferred_functions
            IN  \A d \in 1..Len(recorded) :
                    /\ recorded[d].kind = "add_url_rule" =>
                           \E route \in NewRoutes(last'.host) :
                               HasOptions(route, recorded[d].options)
                    /\ recorded[d].kind = "init" =>
                           LET a == recorded[d].api
                           IN  \A i \in 1..Len(apis[a].resources) :
                                   \A j \in 1..Len(apis[a].resources[i].urls) :
                                       \E route \in NewRoutes(last'.host) :
                                           /\ route.rule = Str(last'.prefix)
                                                  \o Str(apis[a].prefix)
                                                  \o apis[a].resources[i].urls[j]
                                           /\ HasOptions(route,
                                                  Extra(apis[a].resources[i].kwargs))]_vars

(* api = Api(); api.add_resource(Foo, '/hi', '/foo', defaults={'foo': 'bar'}); *)
(* api.init_app(blueprint); app.register_blueprint(blueprint)                  *)
C28_Witness ==
    /\ last.op = "register_blueprint"
    /\ last.err = OK
    /\ \E a \in Apis :
          /\ apis[a].blueprint = "test"
          /\ Len(apis[a].resources) = 1
          /\ apis[a].resources[1].kwargs = ("defaults" :> [foo |-> "bar"])
          /\ Len(apis[a].resources[1].urls) = 2
    /\ Len(apps[last.host].url_map) = 2
    /\ \A i \in 1..2 :
          /\ apps[last.host].url_map[i].options["defaults"] = [foo |-> "bar"]
          /\ apps[last.host].url_map[i].endpoint = "test.foo"

----------------------------------------------------------------------------
(* The final URLs of all paths of the calls that added the resource on a *)
UrlsFor(a, resource) ==
    {FinalUrl(a, u) : u \in UNION {Elements(t.urls) : t \in AddedFor(a, resource)}}

(* Registries a and b were constructed with the application and have both    *)
(* added the resource, under different endpoints or with different prefixes  *)
BothRegistered(a, b, app, resource) ==
    /\ a # b
    /\ apis[a].app = app /\ apis[a].blueprint = None
    /\ apis[b].app = app /\ apis[b].blueprint = None
    /\ AddedFor(a, resource) # {}
    /\ AddedFor(b, resource) # {}
    /\ \/ apis[a].prefix # apis[b].prefix
       \/ \E t \in AddedFor(a, resource), u \in AddedFor(b, resource) :
             t.endpoint # u.endpoint

(* C29: when two registries have registered the same resource under          *)
(* different endpoints or prefixes, url_for(resource) on either of them      *)
(* returns a URL that this registry registered for the resource.             *)
C29_EachRegistryItsOwnUrl ==
    (/\ aux.kind = "url_for"
     /\ \E b \in Apis : BothRegistered(aux.api, b, aux.app, aux.resource)) =>
        /\ aux.err = OK
        /\ aux.url \in UrlsFor(aux.api, aux.resource)

(* C29 for the registry whose endpoint the resource class carries *)
C29_FirstRegistryItsOwnUrl ==
    (/\ aux.kind = "url_for"
     /\ \E b \in Apis : BothRegistered(aux.api, b, aux.app, aux.resource)
     /\ \A t \in AddedFor(aux.api, aux.resource) : t.endpoint = res[aux.resource]) =>
        /\ aux.err = OK
        /\ aux.url \in UrlsFor(aux.api, aux.resource)

----------------------------------------------------------------------------
(* C30: once a registry is bound directly to an application, an init_app    *)
(* call changes neither its application nor its group: it never acquires a   *)
(* group binding.                                                            *)
C30_BoundDirectIsTerminal ==
    [][\A a \in Apis :
         (/\ last'.op = "init_app"
          /\ last'.api = a
          /\ apis[a].app \in Apps
          /\ apis[a].blueprint = None)
         => (apis'[a].app = apis[a].app /\ apis'[a].blueprint = None)]_vars

(* C30 for init_app with an application: the binding stays as it was *)
C30_InitAppWithApplicationKeepsBinding ==
    [][\A a \in Apis :
         (/\ last'.op = "init_app"
          /\ last'.api = a
          /\ last'.host \in Apps
          /\ apis[a].app \in Apps
          /\ apis[a].blueprint = None)
         => (apis'[a].app = apis[a].app /\ apis'[a].blueprint = None)]_vars

----------------------------------------------------------------------------
(* The registries whose deferred initialisation the group carries *)
Hooked(bp) ==
    {bps[bp].deferred_functions[i].api :
        i \in {j \in 1..Len(bps[bp].deferred_functions) :
                  bps[bp].deferred_functions[j].kind = "init"}}

(* Mount prefix + registry prefix + path, for the mounts of the group on     *)
(* the application and the registries of the group                           *)
MountedUrls(app, bp) ==
    {Str(states[s].url_prefix) \o apis[a].prefix \o u :
        s \in {t \in 1..Len(states) : states[t].app = app /\ states[t].blueprint = bp},
        a \in Hooked(bp),
        u \in UNION {Elements(urls) : urls \in UrlLists}}

(* C31: when two registries are bound to one group, every mount has the     *)
(* interception installed and keeps the host's own add_url_rule, never the   *)
(* interception itself, as its original method; every route under the        *)
(* group's name is at mount prefix + registry prefix + path, the mount       *)
(* prefix there once.                                                        *)
C31_PatchInstalledOnce ==
    \A s \in 1..Len(states) :
        Cardinality(Hooked(states[s].blueprint)) >= 2 =>
            /\ states[s].patched
            /\ states[s].original = "add_url_rule"
            /\ \A i \in 1..Len(apps[states[s].app].url_map) :
                   LET route == apps[states[s].app].url_map[i]
                   IN  RequestBlueprint(route.endpoint) = states[s].blueprint =>
                           route.rule \in MountedUrls(states[s].app, states[s].blueprint)

(* both registries have added a resource, and the group is mounted at '/reg' *)
C31_Witness ==
    /\ Len(states) = 1
    /\ last.op = "register_blueprint"
    /\ last.err = OK
    /\ Hooked("test") = {"api1", "api2"}
    /\ states[1].url_prefix = "/reg"
    /\ states[1].patched
    /\ states[1].original = "add_url_rule"
    /\ ghost.added["api1"] # {}
    /\ ghost.added["api2"] # {}
    /\ Len(apps[states[1].app].url_map) >= 2

----------------------------------------------------------------------------
(* C32: a mount that raises the repeated-mount error leaves every            *)
(* registry's remembered setup state, endpoints set and buffered entries as  *)
(* they were before it.                                                      *)
C32_FailedMountLeavesRegistry ==
    [][(last'.op = "register_blueprint" /\ last'.err = RepeatedMount) =>
          \A a \in Apis :
              /\ apis'[a].blueprint_setup = apis[a].blueprint_setup
              /\ apis'[a].endpoints = apis[a].endpoints
              /\ apis'[a].resources = apis[a].resources]_vars

(* C32 without the remembered setup state: the endpoints set and the         *)
(* buffered entries stay as they were                                        *)
C32_FailedMountKeepsEndpointsAndEntries ==
    [][(last'.op = "register_blueprint" /\ last'.err = RepeatedMount) =>
          \A a \in Apis :
              /\ apis'[a].endpoints = apis[a].endpoints
              /\ apis'[a].resources = apis[a].resources]_vars

----------------------------------------------------------------------------
(* The call is an init_app(application) on a registry with buffered entries, *)
(* or a mount of a group that carries registry hooks only, and it raised     *)
(* the endpoint conflict while replaying the buffered entries                *)
ReplayFailed ==
    /\ last'.err = EndpointConflict
    /\ \/ /\ last'.op = "init_app"
          /\ last'.host \in Apps
          /\ apis[last'.api].resources # <<>>
       \/ /\ last'.op = "register_blueprint"
          /\ \A i \in 1..Len(bps[last'.api].deferred_functions) :
                 bps[last'.api].deferred_functions[i].kind = "init"

(* C33: a replay of the buffered entries that raises the endpoint conflict   *)
(* on some entry has registered no route and no view function with any       *)
(* application.                                                              *)
C33_ReplayAllOrNothing ==
    [][ReplayFailed =>
          \A p \in Apps :
              /\ apps'[p].url_map = apps[p].url_map
              /\ apps'[p].view_functions = apps[p].view_functions]_vars

----------------------------------------------------------------------------
(* The coming add_resource call is on a registry bound to an application     *)
(* whose handler for the call's endpoint is not a resource view              *)
NonResourceEndpoint(a) ==
    /\ last'.op = "add_resource"
    /\ last'.api = a
    /\ apis[a].app \in Apps
    /\ LET e == ResolveEndpoint(last'.resource, last'.endpoint)
           vf == apps[apis[a].app].view_functions
       IN  e \in DOMAIN vf /\ vf[e].view_class = None

(* C34: add_resource under an endpoint that the application maps to a plain  *)
(* view function or to its static endpoint raises the endpoint conflict.     *)
C34_NonResourceEndpointConflicts ==
    [][\A a \in Apis : NonResourceEndpoint(a) => last'.err = EndpointConflict]_vars

(* C34 for any error: the call raises and registers nothing with the         *)
(* applications                                                              *)
C34_NonResourceEndpointFails ==
    [][\A a \in Apis : NonResourceEndpoint(a) => (last'.err # OK /\ apps' = apps)]_vars

----------------------------------------------------------------------------
(* C35: no call, returning or raising, takes a member out of a registry's   *)
(* endpoints set: the set after a step contains the set before it.           *)
C35_EndpointsNeverShrink ==
    [][\A a \in Apis : apis[a].endpoints \subseteq apis'[a].endpoints]_vars

(* a third add_resource raised on a registry that holds two endpoints *)
C35_Witness ==
    /\ last.op = "add_resource"
    /\ last.err = EndpointConflict
    /\ apis[last.api].endpoints = {"foo", "bar"}

----------------------------------------------------------------------------
(* The routes that the add_resource step on registry a appends have the      *)
(* endpoint resolved by the call, qualified by the group's name when the     *)
(* registry is bound to a mounted group                                      *)
RegisteredAsResolved(a) ==
    LET e == ResolveEndpoint(last'.resource, last'.endpoint)
        s == apis[a].blueprint_setup
    IN  /\ (apis[a].app \in Apps /\ apis[a].blueprint = None) =>
               \A r \in NewRoutes(apis[a].app) : r.endpoint = e
        /\ (apis[a].blueprint # None /\ s # 0) =>
               \A r \in NewRoutes(states[s].app) :
                   r.endpoint = Qualified(apis[a].blueprint, e)

(* C36: every route that an add_resource call registers is recorded by the   *)
(* application under the endpoint the call resolved, qualified by the group  *)
(* name on a group-bound registry, whatever decorators the registry and the  *)
(* call have.                                                                *)
C36_RecordedUnderResolvedEndpoint ==
    [][\A a \in Apis :
         (last'.op = "add_resource" /\ last'.api = a) => RegisteredAsResolved(a)]_vars

(* C36 for decorators written with functools.wraps *)
C36_RecordedUnderResolvedEndpointWhenWrapped ==
    [][\A a \in Apis :
         (/\ last'.op = "add_resource"
          /\ last'.api = a
          /\ \A i \in 1..Len(apis[a].decorators) : apis[a].decorators[i].wraps
          /\ \A i \in 1..Len(GetDecorators(last'.options)) :
                 GetDecorators(last'.options)[i].wraps)
         => RegisteredAsResolved(a)]_vars

====
